---- MODULE Spec2Model ----
(***************************************************************************)
(* The analysis request pipeline of the four UI surfaces of the toolkit:   *)
(*   page   - ui/pages/ui-page/src/App.tsx               (Page)            *)
(*   ext    - ui/extensions/ui-extension/src/App.tsx     (Extension)       *)
(*   app    - ui/extensions/azure-analyst/src/App.tsx    (App)             *)
(*   azext  - ui/extensions/azure-analyst/src/extension.tsx                *)
(*                                              (AzureAnalystExtension)    *)
(* Each surface is a React component: its useState cells are the fields of *)
(* one record variable.  An event handler runs to its first await in one   *)
(* step (React renders after every discrete event, so each handler reads   *)
(* the state of the latest render); the code after the await runs, in one  *)
(* step, when the remote call settles, and reads the values the handler    *)
(* captured when it started.  The surfaces share no state, so one          *)
(* behaviour runs one surface, chosen in Init.                             *)
(***************************************************************************)
EXTENDS Integers, Sequences, FiniteSets, TLC

VARIABLES surface, remote, page, ext, app, azext, calls, arrivals, src, ev, view

\* what no handler of the request pipeline writes: the surface and the remote
\* end of the behaviour, and the display fields the last render computed
env == <<surface, remote, view>>

vars == <<surface, remote, page, ext, app, azext, calls, arrivals, src, ev, view>>

(* ---------------------------------------------------------------------- *)
(* Bounds                                                                 *)
(* ---------------------------------------------------------------------- *)
\* remote calls one surface issues in a behaviour
MaxCalls == 2
\* data-arrival events one surface receives in a behaviour
MaxArrivals == 2

(* ---------------------------------------------------------------------- *)
(* JavaScript values.  A text is a sequence of tokens; null and undefined  *)
(* are kept apart from the empty string.                                   *)
(* ---------------------------------------------------------------------- *)
Null == [t |-> "null", v |-> <<>>]
Undefined == [t |-> "undefined", v |-> <<>>]
Str(s) == [t |-> "string", v |-> s]

\* ToBoolean of a text value: null, undefined and "" are falsy
Truthy(x) == x.t = "string" /\ x.v # <<>>

\* a || b
Or(a, b) == IF Truthy(a) THEN a ELSE b

IsWs(c) == c \in {" ", "\n"}

RECURSIVE TrimStart(_)
TrimStart(s) == IF s = <<>> THEN s
                ELSE IF IsWs(Head(s)) THEN TrimStart(Tail(s)) ELSE s

RECURSIVE TrimEnd(_)
TrimEnd(s) == IF s = <<>> THEN s
              ELSE IF IsWs(s[Len(s)]) THEN TrimEnd(SubSeq(s, 1, Len(s) - 1)) ELSE s

\* String.prototype.trim
Trim(s) == TrimEnd(TrimStart(s))

(* ---------------------------------------------------------------------- *)
(* Records delivered by the host platform: a mapping from some keys to     *)
(* texts.  NoRecord is the null the useState cells start with.             *)
(* ---------------------------------------------------------------------- *)
NoRecord == [t |-> "null", v |-> [k \in {} |-> <<>>]]
Obj(f) == [t |-> "object", v |-> f]

\* record.key, undefined when the key is absent
Get(r, k) == IF r.t = "object" /\ k \in DOMAIN r.v THEN Str(r.v[k]) ELSE Undefined

Records ==
  { Obj([k \in {} |-> <<>>]),
    Obj([k \in {"name", "hostname", "id"} |-> <<k, "1">>]),
    Obj([k \in {"detection_name", "device_name", "incident_id"} |-> <<k, "2">>]) }

\* every record over the keys K whose values are empty or non-empty texts
RecordsOver(K) ==
  UNION { { Obj([k \in S |-> IF c[k] = "text" THEN <<k>> ELSE <<>>]) :
              c \in [S -> {"empty", "text"}] } : S \in SUBSET K }

\* the display fields before the first render
NoView == [f \in {} |-> Undefined]

(* ---------------------------------------------------------------------- *)
(* What the user can type into the two inputs of the page.                 *)
(* ---------------------------------------------------------------------- *)
Inputs == { <<>>, <<" ">>, <<" ", "a">> }

(* ---------------------------------------------------------------------- *)
(* Outcomes of a remote call; ev is the last event of the request          *)
(* pipeline (typing into an input is not one).  kind: "throw" the promise  *)
(* rejects with an Error whose message is `message` (which may be the      *)
(* empty string); "throwval" it rejects with a value that is not an Error; *)
(* "null" it resolves to null; "http" (fetch only) it resolves to a        *)
(* non-2xx response of status `http` whose body has the field message;     *)
(* "body" it resolves to an object with the fields status, text            *)
(* (`response` or `analysis`) and message.                                 *)
(* ---------------------------------------------------------------------- *)
Resp(k, h, s, x, m) == [kind |-> k, http |-> h, status |-> s, text |-> x, message |-> m]

NoResp == Resp("none", 0, Undefined, Undefined, Undefined)

Success == Str(<<"success">>)

\* the text the remote end answers call i with
Answer(i) == Str(<<"X", ToString(i)>>)

BodyResponses(i) ==
  { Resp("body", 200, Success, Answer(i), Undefined),
    Resp("body", 200, Success, Undefined, Undefined),
    Resp("body", 200, Str(<<"error">>), Undefined, Str(<<"M">>)),
    Resp("body", 200, Str(<<"error">>), Undefined, Undefined) }

Rejections ==
  { Resp("throw", 0, Undefined, Undefined, Str(<<"network">>)),
    Resp("throw", 0, Undefined, Undefined, Str(<<>>)),
    Resp("throwval", 0, Undefined, Undefined, Undefined) }

\* falcon.functions.post / falcon.fn.execute
RpcResponses(i) == BodyResponses(i) \cup Rejections
                     \cup { Resp("null", 200, Undefined, Undefined, Undefined) }

\* fetch followed by response.json()
FetchResponses(i) == RpcResponses(i)
                       \cup { Resp("http", 429, Undefined, Undefined, Undefined),
                              Resp("http", 429, Undefined, Undefined, Str(<<"M">>)) }

IsSuccess(resp) == resp.kind = "body" /\ resp.status = Success

(* ---------------------------------------------------------------------- *)
(* The cells of the active surface                                         *)
(* ---------------------------------------------------------------------- *)
Loading ==
  CASE surface = "page" -> page.loading
    [] surface = "ext" -> ext.loading
    [] surface = "app" -> app.isLoading
    [] surface = "azext" -> azext.loading

Error ==
  CASE surface = "page" -> page.error
    [] surface = "ext" -> ext.error
    [] surface = "app" -> app.error
    [] surface = "azext" -> azext.error

\* the record the surface displays
Record ==
  CASE surface = "page" -> NoRecord
    [] surface = "ext" -> ext.detectionData
    [] surface = "app" -> app.detectionData
    [] surface = "azext" -> azext.data

\* the surface displays a success result
SuccessShown ==
  CASE surface = "page" -> FALSE
    [] surface = "ext" -> Truthy(ext.analysis)
    [] surface = "app" -> app.analysisResult.kind # "none"
    [] surface = "azext" -> azext.analysis.status = "success"

(* ---------------------------------------------------------------------- *)
(* Remote calls.  calls is the list of the calls the surface has issued,   *)
(* in order; a call is in flight while its status is "pending".  newHistory  *)
(* is the transcript the page handler captured, gen the number of          *)
(* data-arrival events the surface had received when the call was issued,  *)
(* prev the call whose result the surface displayed, with no request       *)
(* pending, when the call was issued (0 when there was none).              *)
(* remote is the remote end of this behaviour: "settles" when it resolves  *)
(* or rejects every call, "silent" when it never settles any.              *)
(* ---------------------------------------------------------------------- *)
Arg(shape, text, type, data) == [shape |-> shape, text |-> text, type |-> type, data |-> data]

Call(handler, fn, arg, newHistory) ==
  [handler |-> handler, fn |-> fn, arg |-> arg, newHistory |-> newHistory,
   gen |-> arrivals, prev |-> IF SuccessShown /\ ~Loading THEN src ELSE 0,
   status |-> "pending"]

InFlight == { i \in 1..Len(calls) : calls[i].status = "pending" }

Event(op, id, resp) == [op |-> op, id |-> id, resp |-> resp]

Turn(role, content) == [role |-> role, content |-> content]

(* ====================================================================== *)
(* page: ui/pages/ui-page/src/App.tsx                                      *)
(* ====================================================================== *)
PageInit ==
  [conn |-> "connecting", falcon |-> FALSE, logs |-> <<>>, chatInput |-> <<>>,
   chatHistory |-> <<>>, loading |-> FALSE, error |-> Null]

\* initFalcon: api.connect() resolved
Page_initFalcon_ok ==
  /\ surface = "page" /\ page.conn = "connecting"
  /\ page' = [page EXCEPT !.conn = "connected", !.falcon = TRUE]
  /\ ev' = Event("initFalcon_ok", 0, NoResp)
  /\ UNCHANGED <<env, ext, app, azext, calls, arrivals, src>>

\* initFalcon: api.connect() rejected
Page_initFalcon_catch ==
  /\ surface = "page" /\ page.conn = "connecting"
  /\ page' = [page EXCEPT !.conn = "failed",
                          !.error = Str(<<"Failed to connect to Falcon.">>)]
  /\ ev' = Event("initFalcon_catch", 0, NoResp)
  /\ UNCHANGED <<env, ext, app, azext, calls, arrivals, src>>

\* onSlInput of the logs textarea
Page_setLogs(v) ==
  /\ surface = "page" /\ v # page.logs
  /\ page' = [page EXCEPT !.logs = v]
  /\ UNCHANGED <<env, ext, app, azext, calls, arrivals, src, ev>>

\* onSlInput of the chat input
Page_setChatInput(v) ==
  /\ surface = "page" /\ v # page.chatInput
  /\ page' = [page EXCEPT !.chatInput = v]
  /\ UNCHANGED <<env, ext, app, azext, calls, arrivals, src, ev>>

AnalyzePrefix == <<"Analyze these logs:", "\n">>

\* a handleAnalyzeLogs that does not test the platform connection
Page_handleAnalyzeLogs_noGate ==
  IF Trim(page.logs) = <<>>
  THEN UNCHANGED <<page, calls>>
  ELSE LET newHistory == Append(page.chatHistory,
                                Turn("user", Str(AnalyzePrefix \o page.logs)))
       IN /\ page' = [page EXCEPT !.loading = TRUE, !.error = Null,
                                  !.chatHistory = newHistory]
          /\ calls' = Append(calls,
                             Call("handleAnalyzeLogs", "handle_triage_request",
                                  Arg("logs", page.logs, "", NoRecord),
                                  newHistory))

\* a handleAnalyzeLogs that sends the trimmed logs and empties the input
Page_handleAnalyzeLogs_consumes ==
  IF ~page.falcon \/ Trim(page.logs) = <<>>
  THEN UNCHANGED <<page, calls>>
  ELSE LET newHistory == Append(page.chatHistory,
                                Turn("user", Str(AnalyzePrefix \o page.logs)))
       IN /\ page' = [page EXCEPT !.loading = TRUE, !.error = Null,
                                  !.chatHistory = newHistory, !.logs = <<>>]
          /\ calls' = Append(calls,
                             Call("handleAnalyzeLogs", "handle_triage_request",
                                  Arg("logs", Trim(page.logs), "", NoRecord),
                                  newHistory))

\* handleAnalyzeLogs up to its await
Page_handleAnalyzeLogs ==
  IF ~page.falcon \/ Trim(page.logs) = <<>>
  THEN UNCHANGED <<page, calls>>
  ELSE LET newHistory == Append(page.chatHistory,
                                Turn("user", Str(AnalyzePrefix \o page.logs)))
       IN /\ page' = [page EXCEPT !.loading = TRUE, !.error = Null,
                                  !.chatHistory = newHistory]
          /\ calls' = Append(calls,
                             Call("handleAnalyzeLogs", "handle_triage_request",
                                  Arg("logs", page.logs, "", NoRecord),
                                  newHistory))

\* a handleChatSubmit that sends and appends the trimmed chat text
Page_handleChatSubmit_trimmed ==
  IF ~page.falcon \/ Trim(page.chatInput) = <<>>
  THEN UNCHANGED <<page, calls>>
  ELSE LET message == Trim(page.chatInput)
           newHistory == Append(page.chatHistory, Turn("user", Str(message)))
       IN /\ page' = [page EXCEPT !.chatInput = <<>>, !.loading = TRUE,
                                  !.error = Null, !.chatHistory = newHistory]
          /\ calls' = Append(calls,
                             Call("handleChatSubmit", "handle_triage_request",
                                  Arg("message", message, "", NoRecord),
                                  newHistory))

\* a handleChatSubmit that does not validate the chat text
Page_handleChatSubmit_noTrim ==
  IF ~page.falcon
  THEN UNCHANGED <<page, calls>>
  ELSE LET message == page.chatInput
           newHistory == Append(page.chatHistory, Turn("user", Str(message)))
       IN /\ page' = [page EXCEPT !.chatInput = <<>>, !.loading = TRUE,
                                  !.error = Null, !.chatHistory = newHistory]
          /\ calls' = Append(calls,
                             Call("handleChatSubmit", "handle_triage_request",
                                  Arg("message", message, "", NoRecord),
                                  newHistory))

\* handleChatSubmit up to its await
Page_handleChatSubmit ==
  IF ~page.falcon \/ Trim(page.chatInput) = <<>>
  THEN UNCHANGED <<page, calls>>
  ELSE LET message == page.chatInput
           newHistory == Append(page.chatHistory, Turn("user", Str(message)))
       IN /\ page' = [page EXCEPT !.chatInput = <<>>, !.loading = TRUE,
                                  !.error = Null, !.chatHistory = newHistory]
          /\ calls' = Append(calls,
                             Call("handleChatSubmit", "handle_triage_request",
                                  Arg("message", message, "", NoRecord),
                                  newHistory))

\* the Analyze Logs button; a click on a disabled button does nothing
Page_clickAnalyzeLogs ==
  /\ surface = "page" /\ Len(calls) < MaxCalls
  /\ IF page.loading \/ Trim(page.logs) = <<>>
     THEN UNCHANGED <<page, calls>>
     ELSE Page_handleAnalyzeLogs
  /\ ev' = Event("clickAnalyzeLogs", Len(calls'), NoResp)
  /\ UNCHANGED <<env, ext, app, azext, arrivals, src>>

\* the Send button; a click on a disabled button does nothing
Page_clickSend ==
  /\ surface = "page" /\ Len(calls) < MaxCalls
  /\ IF page.loading \/ Trim(page.chatInput) = <<>>
     THEN UNCHANGED <<page, calls>>
     ELSE Page_handleChatSubmit
  /\ ev' = Event("clickSend", Len(calls'), NoResp)
  /\ UNCHANGED <<env, ext, app, azext, arrivals, src>>

\* onKeyDown of the chat input with key Enter
Page_keyDownEnter ==
  /\ surface = "page" /\ Len(calls) < MaxCalls
  /\ Page_handleChatSubmit
  /\ ev' = Event("keyDownEnter", Len(calls'), NoResp)
  /\ UNCHANGED <<env, ext, app, azext, arrivals, src>>

\* a failure branch that also puts the failure into the transcript
Page_else_appends(c, resp) ==
  [page EXCEPT
     !.chatHistory = Append(c.newHistory, Turn("assistant", Str(<<"Analysis failed.">>))),
     !.error = Str(<<"Analysis failed.">>),
     !.loading = FALSE]

\* the else branch: setError(response?.message || fallback), then finally
Page_else(c, resp) ==
  [page EXCEPT
     !.error = Or(IF resp.kind = "null" THEN Undefined ELSE resp.message,
                  IF c.handler = "handleAnalyzeLogs"
                  THEN Str(<<"Analysis failed.">>) ELSE Str(<<"Chat failed.">>)),
     !.loading = FALSE]

\* a success branch that appends to the transcript of the latest render
Page_then_appendsCurrent(c, resp) ==
  [page EXCEPT
     !.chatHistory = Append(page.chatHistory, Turn("assistant", resp.text)),
     !.loading = FALSE]

\* a success branch that reads the wrong field of the response
Page_then_message(c, resp) ==
  [page EXCEPT
     !.chatHistory = Append(c.newHistory, Turn("assistant", resp.message)),
     !.loading = FALSE]

\* the success branch: setChatHistory([...newHistory, assistant turn]), then
\* finally
Page_then(c, resp) ==
  [page EXCEPT
     !.chatHistory = Append(c.newHistory, Turn("assistant", resp.text)),
     !.loading = FALSE]

\* the catch block, then finally
Page_catch ==
  [page EXCEPT !.error = Str(<<"Error calling AI service.">>), !.loading = FALSE]

\* the rest of handleAnalyzeLogs / handleChatSubmit, run when call i settles
Page_resume(i, resp) ==
  /\ surface = "page" /\ i \in InFlight /\ remote = "settles"
  /\ IF resp.kind \in {"throw", "throwval"}
     THEN /\ page' = Page_catch
          /\ calls' = [calls EXCEPT ![i].status = "failed"]
     ELSE IF resp.kind # "null" /\ resp.status = Success
     THEN /\ page' = Page_then(calls[i], resp)
          /\ calls' = [calls EXCEPT ![i].status = "succeeded"]
     ELSE /\ page' = Page_else(calls[i], resp)
          /\ calls' = [calls EXCEPT ![i].status = "failed"]
  /\ ev' = Event("resume", i, resp)
  /\ UNCHANGED <<env, ext, app, azext, arrivals, src>>

PageNext ==
  \/ Page_initFalcon_ok
  \/ Page_initFalcon_catch
  \/ \E v \in Inputs : Page_setLogs(v)
  \/ \E v \in Inputs : Page_setChatInput(v)
  \/ Page_clickAnalyzeLogs
  \/ Page_clickSend
  \/ Page_keyDownEnter
  \/ \E i \in 1..MaxCalls : \E resp \in RpcResponses(i) : Page_resume(i, resp)

(* ====================================================================== *)
(* ext: ui/extensions/ui-extension/src/App.tsx                             *)
(* ====================================================================== *)
ExtInit ==
  [conn |-> "connecting", falcon |-> FALSE, detectionData |-> NoRecord,
   analysis |-> Null, loading |-> FALSE, error |-> Null]

\* initFalcon: api.connect() resolved; api.data may already hold a record
Ext_initFalcon_ok(data) ==
  /\ surface = "ext" /\ ext.conn = "connecting"
  /\ ext' = [ext EXCEPT !.conn = "connected", !.falcon = TRUE,
                        !.detectionData = IF data.t = "object" THEN data ELSE @]
  /\ ev' = Event("initFalcon_ok", 0, NoResp)
  /\ UNCHANGED <<env, page, app, azext, calls, arrivals, src>>

\* initFalcon: api.connect() rejected
Ext_initFalcon_catch ==
  /\ surface = "ext" /\ ext.conn = "connecting"
  /\ ext' = [ext EXCEPT !.conn = "failed",
                        !.error = Str(<<"Failed to connect to Falcon.">>)]
  /\ ev' = Event("initFalcon_catch", 0, NoResp)
  /\ UNCHANGED <<env, page, app, azext, calls, arrivals, src>>

\* a 'data' handler that also gives up the pending request
Ext_onData_cancels(data) ==
  /\ surface = "ext" /\ ext.conn = "connected" /\ arrivals < MaxArrivals
  /\ ext' = [ext EXCEPT !.detectionData = data, !.analysis = Null,
                        !.loading = FALSE]
  /\ arrivals' = arrivals + 1
  /\ src' = 0
  /\ ev' = Event("onData", 0, NoResp)
  /\ UNCHANGED <<env, page, app, azext, calls>>

\* the handler of the 'data' event
Ext_onData(data) ==
  /\ surface = "ext" /\ ext.conn = "connected" /\ arrivals < MaxArrivals
  /\ ext' = [ext EXCEPT !.detectionData = data, !.analysis = Null]
  /\ arrivals' = arrivals + 1
  /\ src' = 0
  /\ ev' = Event("onData", 0, NoResp)
  /\ UNCHANGED <<env, page, app, azext, calls>>

\* handleTriage up to its await
Ext_handleTriage ==
  IF ~ext.falcon \/ ext.detectionData.t # "object"
  THEN UNCHANGED <<ext, calls>>
  ELSE /\ ext' = [ext EXCEPT !.loading = TRUE, !.error = Null]
       /\ calls' = Append(calls,
                          Call("handleTriage", "handle_triage_request",
                               Arg("record", <<>>, "", ext.detectionData), <<>>))

\* the Triage with AI button is rendered when there is a record, no analysis
\* and no request pending
Ext_triageButton ==
  ext.detectionData.t = "object" /\ ~Truthy(ext.analysis) /\ ~ext.loading

\* the Re-analyze button is rendered with the analysis result
Ext_reanalyzeButton ==
  ext.detectionData.t = "object" /\ Truthy(ext.analysis)

Ext_clickTriage ==
  /\ surface = "ext" /\ Len(calls) < MaxCalls
  /\ IF Ext_triageButton THEN Ext_handleTriage ELSE UNCHANGED <<ext, calls>>
  /\ ev' = Event("clickTriage", Len(calls'), NoResp)
  /\ UNCHANGED <<env, page, app, azext, arrivals, src>>

Ext_clickReanalyze ==
  /\ surface = "ext" /\ Len(calls) < MaxCalls
  /\ IF Ext_reanalyzeButton THEN Ext_handleTriage ELSE UNCHANGED <<ext, calls>>
  /\ ev' = Event("clickReanalyze", Len(calls'), NoResp)
  /\ UNCHANGED <<env, page, app, azext, arrivals, src>>

\* a catch block of which only the finally part has been rendered
Ext_catch_loadingOnly ==
  [ext EXCEPT !.loading = FALSE]

\* the catch block, then finally
Ext_catch ==
  [ext EXCEPT !.error = Str(<<"Error calling AI service.">>), !.loading = FALSE]

\* the success branch: setAnalysis(response.response), then finally
Ext_then(resp) ==
  [ext EXCEPT !.analysis = resp.text, !.loading = FALSE]

\* an else branch that also drops the analysis
Ext_else_clears(resp) ==
  [ext EXCEPT
     !.analysis = Null,
     !.error = Or(IF resp.kind = "null" THEN Undefined ELSE resp.message,
                  Str(<<"Analysis failed.">>)),
     !.loading = FALSE]

\* the else branch: setError(response?.message || 'Analysis failed.'), then
\* finally
Ext_else(resp) ==
  [ext EXCEPT
     !.error = Or(IF resp.kind = "null" THEN Undefined ELSE resp.message,
                  Str(<<"Analysis failed.">>)),
     !.loading = FALSE]

\* a continuation that issues the call again when it failed
Ext_resume_retries(i, resp) ==
  /\ surface = "ext" /\ i \in InFlight /\ remote = "settles"
  /\ IF resp.kind # "null" /\ resp.kind \notin {"throw", "throwval"}
        /\ resp.status = Success
     THEN /\ ext' = Ext_then(resp)
          /\ calls' = [calls EXCEPT ![i].status = "succeeded"]
          /\ src' = i
     ELSE /\ ext' = [ext EXCEPT !.loading = Len(calls) < MaxCalls]
          /\ calls' = IF Len(calls) < MaxCalls
                      THEN Append([calls EXCEPT ![i].status = "failed"],
                                  [calls[i] EXCEPT !.gen = arrivals])
                      ELSE [calls EXCEPT ![i].status = "failed"]
          /\ src' = src
  /\ ev' = Event("resume", i, resp)
  /\ UNCHANGED <<env, page, app, azext, arrivals>>

\* the rest of handleTriage, run when call i settles
Ext_resume(i, resp) ==
  /\ surface = "ext" /\ i \in InFlight /\ remote = "settles"
  /\ IF resp.kind \in {"throw", "throwval"}
     THEN /\ ext' = Ext_catch
          /\ calls' = [calls EXCEPT ![i].status = "failed"]
          /\ src' = src
     ELSE IF resp.kind # "null" /\ resp.status = Success
     THEN /\ ext' = Ext_then(resp)
          /\ calls' = [calls EXCEPT ![i].status = "succeeded"]
          /\ src' = i
     ELSE /\ ext' = Ext_else(resp)
          /\ calls' = [calls EXCEPT ![i].status = "failed"]
          /\ src' = src
  /\ ev' = Event("resume", i, resp)
  /\ UNCHANGED <<env, page, app, azext, arrivals>>

ExtNext ==
  \/ \E data \in Records \cup {NoRecord} : Ext_initFalcon_ok(data)
  \/ Ext_initFalcon_catch
  \/ \E data \in Records : Ext_onData(data)
  \/ Ext_clickTriage
  \/ Ext_clickReanalyze
  \/ \E i \in 1..MaxCalls : \E resp \in RpcResponses(i) : Ext_resume(i, resp)

(* ====================================================================== *)
(* app: ui/extensions/azure-analyst/src/App.tsx                            *)
(* ====================================================================== *)
AppInit ==
  [conn |-> "connecting", detectionData |-> NoRecord, isLoading |-> FALSE,
   analysisResult |-> NoResp, error |-> Null, crashed |-> FALSE]

\* initializeFalcon: the client is constructed and the listener registered
App_initializeFalcon_ok ==
  /\ surface = "app" /\ app.conn = "connecting"
  /\ app' = [app EXCEPT !.conn = "connected"]
  /\ ev' = Event("initializeFalcon_ok", 0, NoResp)
  /\ UNCHANGED <<env, page, ext, azext, calls, arrivals, src>>

\* initializeFalcon: new FalconClient() threw
App_initializeFalcon_catch ==
  /\ surface = "app" /\ app.conn = "connecting"
  /\ app' = [app EXCEPT !.conn = "failed",
                        !.error = Str(<<"Failed to initialize Falcon client">>)]
  /\ ev' = Event("initializeFalcon_catch", 0, NoResp)
  /\ UNCHANGED <<env, page, ext, azext, calls, arrivals, src>>

\* the handler of the 'data' event
App_onData(data) ==
  /\ surface = "app" /\ app.conn = "connected" /\ ~app.crashed
  /\ arrivals < MaxArrivals
  /\ app' = [app EXCEPT !.detectionData = data, !.analysisResult = NoResp,
                        !.error = Null]
  /\ arrivals' = arrivals + 1
  /\ src' = 0
  /\ ev' = Event("onData", 0, NoResp)
  /\ UNCHANGED <<env, page, ext, azext, calls>>

\* handleAnalyzeClick up to its await
App_handleAnalyzeClick ==
  IF app.detectionData.t # "object"
  THEN /\ app' = [app EXCEPT !.error = Str(<<"No detection data available to analyze">>)]
       /\ UNCHANGED <<calls, src>>
  ELSE /\ app' = [app EXCEPT !.isLoading = TRUE, !.error = Null,
                             !.analysisResult = NoResp]
       /\ src' = 0
       /\ calls' = Append(calls,
                          Call("handleAnalyzeClick", "/api/functions/azure_analyzer",
                               Arg("json", <<>>, "", app.detectionData), <<>>))

\* the Analyze button is rendered with the record, disabled while loading
App_analyzeButton == app.detectionData.t = "object" /\ ~app.isLoading

\* the Re-analyze button is rendered with the result, disabled while loading
App_reanalyzeButton == app.analysisResult.kind # "none" /\ ~app.isLoading

App_clickAnalyze ==
  /\ surface = "app" /\ ~app.crashed /\ Len(calls) < MaxCalls
  /\ IF App_analyzeButton THEN App_handleAnalyzeClick ELSE UNCHANGED <<app, calls, src>>
  /\ ev' = Event("clickAnalyze", Len(calls'), NoResp)
  /\ UNCHANGED <<env, page, ext, azext, arrivals>>

App_clickReanalyze ==
  /\ surface = "app" /\ ~app.crashed /\ Len(calls) < MaxCalls
  /\ IF App_reanalyzeButton THEN App_handleAnalyzeClick ELSE UNCHANGED <<app, calls, src>>
  /\ ev' = Event("clickReanalyze", Len(calls'), NoResp)
  /\ UNCHANGED <<env, page, ext, azext, arrivals>>

\* a catch block that shows the message of the response body
App_errorMessage_body(resp) ==
  IF resp.kind = "throw" THEN resp.message
  ELSE IF resp.kind = "http" THEN Or(resp.message, Str(<<"Analysis failed">>))
  ELSE IF resp.kind = "null" THEN Str(<<"TypeError">>)
  ELSE Str(<<"An unexpected error occurred">>)

\* the message of the exception the try block of handleAnalyzeClick raises
App_errorMessage(resp) ==
  IF resp.kind = "throw" THEN resp.message
  ELSE IF resp.kind = "http" THEN Str(<<"HTTP error! status: ", ToString(resp.http)>>)
  ELSE IF resp.kind = "null" THEN Str(<<"TypeError">>)
  ELSE Str(<<"An unexpected error occurred">>)

\* the rest of handleAnalyzeClick, run when call i settles; rendering a
\* result whose analysis is not a string throws in analysisResult.analysis.split
App_resume(i, resp) ==
  /\ surface = "app" /\ i \in InFlight /\ remote = "settles"
  /\ IF resp.kind \in {"throw", "throwval", "http", "null"}
     THEN /\ app' = [app EXCEPT !.error = App_errorMessage(resp), !.isLoading = FALSE]
          /\ calls' = [calls EXCEPT ![i].status = "failed"]
          /\ src' = src
     ELSE IF resp.status = Success
     THEN /\ app' = [app EXCEPT !.analysisResult = resp, !.isLoading = FALSE,
                                !.crashed = @ \/ resp.text.t # "string"]
          /\ calls' = [calls EXCEPT ![i].status = "succeeded"]
          /\ src' = i
     ELSE /\ app' = [app EXCEPT !.error = Or(resp.message, Str(<<"Analysis failed">>)),
                                !.isLoading = FALSE]
          /\ calls' = [calls EXCEPT ![i].status = "failed"]
          /\ src' = src
  /\ ev' = Event("resume", i, resp)
  /\ UNCHANGED <<env, page, ext, azext, arrivals>>

AppNext ==
  \/ App_initializeFalcon_ok
  \/ App_initializeFalcon_catch
  \/ \E data \in Records : App_onData(data)
  \/ App_clickAnalyze
  \/ App_clickReanalyze
  \/ \E i \in 1..MaxCalls : \E resp \in FetchResponses(i) : App_resume(i, resp)

(* ====================================================================== *)
(* azext: ui/extensions/azure-analyst/src/extension.tsx                    *)
(* ====================================================================== *)
Analysis(status, analysis, message) ==
  [status |-> status, analysis |-> analysis, message |-> message]

NoAnalysis == Analysis("null", Undefined, Undefined)

AzExtInit ==
  [data |-> NoRecord, analysis |-> NoAnalysis, loading |-> FALSE, error |-> Null]

\* the handler of the 'data' event
AzExt_onData(newData) ==
  /\ surface = "azext" /\ arrivals < MaxArrivals
  /\ azext' = [azext EXCEPT !.data = newData, !.analysis = NoAnalysis, !.error = Null]
  /\ arrivals' = arrivals + 1
  /\ src' = 0
  /\ ev' = Event("onData", 0, NoResp)
  /\ UNCHANGED <<env, page, ext, app, calls>>

\* a handleAnalyze that takes the type from the presence of the key
AzExt_handleAnalyze_keyPresent ==
  IF azext.data.t # "object"
  THEN /\ azext' = [azext EXCEPT
                      !.error = Str(<<"No detection or incident data available">>)]
       /\ UNCHANGED <<calls, src>>
  ELSE /\ azext' = [azext EXCEPT !.loading = TRUE, !.error = Null,
                                 !.analysis = Analysis("loading", Undefined, Undefined)]
       /\ src' = 0
       /\ calls' = Append(calls,
                          Call("handleAnalyze", "azure_analyzer",
                               Arg("typed", <<>>,
                                   IF "incident_id" \in DOMAIN azext.data.v
                                   THEN "incident" ELSE "detection",
                                   azext.data),
                               <<>>))

\* handleAnalyze up to its await
AzExt_handleAnalyze ==
  IF azext.data.t # "object"
  THEN /\ azext' = [azext EXCEPT
                      !.error = Str(<<"No detection or incident data available">>)]
       /\ UNCHANGED <<calls, src>>
  ELSE /\ azext' = [azext EXCEPT !.loading = TRUE, !.error = Null,
                                 !.analysis = Analysis("loading", Undefined, Undefined)]
       /\ src' = 0
       /\ calls' = Append(calls,
                          Call("handleAnalyze", "azure_analyzer",
                               Arg("typed", <<>>,
                                   IF Truthy(Get(azext.data, "incident_id"))
                                   THEN "incident" ELSE "detection",
                                   azext.data),
                               <<>>))

\* the analyze button is disabled while loading or without a record
AzExt_analyzeButton == ~(azext.loading \/ azext.data.t # "object")

AzExt_clickAnalyze ==
  /\ surface = "azext" /\ Len(calls) < MaxCalls
  /\ IF AzExt_analyzeButton THEN AzExt_handleAnalyze ELSE UNCHANGED <<azext, calls, src>>
  /\ ev' = Event("clickAnalyze", Len(calls'), NoResp)
  /\ UNCHANGED <<env, page, ext, app, arrivals>>

\* the message of the exception the try block of handleAnalyze raises
AzExt_errorMessage(resp) ==
  IF resp.kind = "throw" THEN resp.message
  ELSE IF resp.kind = "null" THEN Str(<<"TypeError">>)
  ELSE Str(<<"Unknown error occurred">>)

\* a catch block after which loading is not reset
AzExt_catch_noFinally(resp) ==
  [azext EXCEPT
     !.error = AzExt_errorMessage(resp),
     !.analysis = Analysis("error", Undefined, AzExt_errorMessage(resp))]

\* the catch block, then finally
AzExt_catch(resp) ==
  [azext EXCEPT
     !.error = AzExt_errorMessage(resp),
     !.analysis = Analysis("error", Undefined, AzExt_errorMessage(resp)),
     !.loading = FALSE]

\* the success branch, then finally
AzExt_then(resp) ==
  [azext EXCEPT
     !.analysis = Analysis("success", resp.text, Undefined),
     !.loading = FALSE]

\* the else branch, then finally
AzExt_else(resp) ==
  [azext EXCEPT
     !.analysis = Analysis("error", Undefined,
                           Or(resp.message, Str(<<"Analysis failed">>))),
     !.error = Or(resp.message, Str(<<"Failed to get analysis">>)),
     !.loading = FALSE]

\* the rest of handleAnalyze, run when call i settles; reading
\* response.status of a null response throws into the catch block
AzExt_resume(i, resp) ==
  /\ surface = "azext" /\ i \in InFlight /\ remote = "settles"
  /\ IF resp.kind \in {"throw", "throwval", "null"}
     THEN /\ azext' = AzExt_catch(resp)
          /\ calls' = [calls EXCEPT ![i].status = "failed"]
          /\ src' = src
     ELSE IF resp.status = Success
     THEN /\ azext' = AzExt_then(resp)
          /\ calls' = [calls EXCEPT ![i].status = "succeeded"]
          /\ src' = i
     ELSE /\ azext' = AzExt_else(resp)
          /\ calls' = [calls EXCEPT ![i].status = "failed"]
          /\ src' = src
  /\ ev' = Event("resume", i, resp)
  /\ UNCHANGED <<env, page, ext, app, arrivals>>

AzExtNext ==
  \/ \E newData \in Records : AzExt_onData(newData)
  \/ AzExt_clickAnalyze
  \/ \E i \in 1..MaxCalls : \E resp \in RpcResponses(i) : AzExt_resume(i, resp)

(* ====================================================================== *)
(* Specification                                                           *)
(* ====================================================================== *)
Surfaces == {"page", "ext", "app", "azext"}

Init ==
  /\ surface \in Surfaces
  /\ remote \in {"settles", "silent"}
  /\ page = PageInit
  /\ ext = ExtInit
  /\ app = AppInit
  /\ azext = AzExtInit
  /\ calls = <<>>
  /\ arrivals = 0
  /\ src = 0
  /\ ev = Event("init", 0, NoResp)
  /\ view = NoView

Next == PageNext \/ ExtNext \/ AppNext \/ AzExtNext

Spec == Init /\ [][Next]_vars

\* call i settles and the handler that awaits it runs on
Resume(i) ==
  \/ \E resp \in RpcResponses(i) : Page_resume(i, resp)
  \/ \E resp \in RpcResponses(i) : Ext_resume(i, resp)
  \/ \E resp \in FetchResponses(i) : App_resume(i, resp)
  \/ \E resp \in RpcResponses(i) : AzExt_resume(i, resp)

\* The event loop runs the continuation of every call the remote end settles.
FairSpec == Spec /\ \A i \in 1..MaxCalls : WF_vars(Resume(i))

(* ====================================================================== *)
(* Display fields.  Every surface computes the fields it displays from the *)
(* record when it renders; NormSpec runs that render on every record over  *)
(* the keys the surface reads, delivered by one data-arrival event, and    *)
(* the analyze action of the azure-analyst extension, which makes the      *)
(* argument of the remote call from the record.                            *)
(* ====================================================================== *)
\* detectionData.name || 'Unknown', .severity, .tactic
Ext_display(r) ==
  [name |-> Or(Get(r, "name"), Str(<<"Unknown">>)),
   severity |-> Or(Get(r, "severity"), Str(<<"Unknown">>)),
   tactic |-> Or(Get(r, "tactic"), Str(<<"Unknown">>))]

\* a getHostName that tries device_name first
App_getHostName_deviceFirst(r) ==
  Or(Or(Or(Get(r, "device_name"), Get(r, "host_name")), Get(r, "hostname")),
     Str(<<"Unknown Device">>))

App_getHostName(r) ==
  Or(Or(Or(Get(r, "hostname"), Get(r, "host_name")), Get(r, "device_name")),
     Str(<<"Unknown Device">>))

\* a getDetectionName without the sentinel
App_getDetectionName_noSentinel(r) ==
  Or(Get(r, "name"), Get(r, "detection_name"))

App_getDetectionName(r) ==
  Or(Or(Get(r, "name"), Get(r, "detection_name")), Str(<<"Unknown Detection">>))

App_display(r) == [name |-> App_getDetectionName(r), host |-> App_getHostName(r)]

\* data.id || data.detection_id || data.incident_id || 'N/A'
AzExt_display(r) ==
  [id |-> Or(Or(Or(Get(r, "id"), Get(r, "detection_id")), Get(r, "incident_id")),
             Str(<<"N/A">>))]

Ext_render ==
  /\ surface = "ext" /\ ext.detectionData.t = "object"
  /\ view' = Ext_display(ext.detectionData)
  /\ UNCHANGED <<surface, remote, page, ext, app, azext, calls, arrivals, src, ev>>

App_render ==
  /\ surface = "app" /\ app.detectionData.t = "object"
  /\ view' = App_display(app.detectionData)
  /\ UNCHANGED <<surface, remote, page, ext, app, azext, calls, arrivals, src, ev>>

AzExt_render ==
  /\ surface = "azext" /\ azext.data.t = "object"
  /\ view' = AzExt_display(azext.data)
  /\ UNCHANGED <<surface, remote, page, ext, app, azext, calls, arrivals, src, ev>>

\* the state after the first data-arrival event delivered a record
NormInit ==
  /\ surface \in {"ext", "app", "azext"}
  /\ remote = "settles"
  /\ page = PageInit
  /\ \E r \in RecordsOver({"name", "severity", "tactic"}) :
       ext = IF surface = "ext"
             THEN [ExtInit EXCEPT !.conn = "connected", !.falcon = TRUE,
                                  !.detectionData = r]
             ELSE ExtInit
  /\ \E r \in RecordsOver({"name", "detection_name",
                            "hostname", "host_name", "device_name"}) :
       app = IF surface = "app"
             THEN [AppInit EXCEPT !.conn = "connected", !.detectionData = r]
             ELSE AppInit
  /\ \E r \in RecordsOver({"id", "detection_id", "incident_id"}) :
       azext = IF surface = "azext" THEN [AzExtInit EXCEPT !.data = r] ELSE AzExtInit
  /\ calls = <<>>
  /\ arrivals = 1
  /\ src = 0
  /\ ev = Event("onData", 0, NoResp)
  /\ view = NoView

NormNext == Ext_render \/ App_render \/ AzExt_render \/ AzExt_clickAnalyze

NormSpec == NormInit /\ [][NormNext]_vars

(* ====================================================================== *)
(* Views of the active surface                                             *)
(* ====================================================================== *)
\* the surface holds the success result of response resp
ResultRecorded(resp) ==
  CASE surface = "page" ->
         /\ page.chatHistory # <<>>
         /\ page.chatHistory[Len(page.chatHistory)] = Turn("assistant", resp.text)
    [] surface = "ext" -> ext.analysis = resp.text
    [] surface = "app" -> app.analysisResult = resp
    [] surface = "azext" -> azext.analysis = Analysis("success", resp.text, Undefined)

\* the cell that stores the result (the transcript on the page)
Stored ==
  CASE surface = "page" -> page.chatHistory
    [] surface = "ext" -> ext.analysis
    [] surface = "app" -> app.analysisResult
    [] surface = "azext" -> azext.analysis

IsPrefix(s, t) == Len(s) <= Len(t) /\ SubSeq(t, 1, Len(s)) = s

StartOps == {"clickAnalyzeLogs", "clickSend", "keyDownEnter"}

(* ====================================================================== *)
(* Claims                                                                  *)
(* ====================================================================== *)

\* C1: on every surface, in every reachable state, at most one remote call
\* of the surface is in flight.
C1_MutualExclusion == Cardinality(InFlight) <= 1

\* C2: on a record-backed surface the displayed result never comes from a
\* request that was started for another record than the one displayed: the
\* completion of a request started before a data-arrival event delivered a
\* new record does not set the result of the new record.
C2_StalenessDiscard ==
  (surface # "page" /\ src # 0) => calls[src].arg.data = Record

\* C3: the page transcript is append-only: in every step the transcript is
\* an extension of the transcript of the previous state.
C3_AppendOnly ==
  [][surface = "page" => IsPrefix(page.chatHistory, page'.chatHistory)]_vars

\* C4: a start attempt on the page (Analyze Logs click, Send click, Enter in
\* the chat input) made while a request is pending leaves the transcript,
\* the error indicator and the pending flag unchanged and issues no call.
C4_IdempotentRejection ==
  [][(surface = "page" /\ page.loading /\ ev'.op \in StartOps)
       => /\ page'.chatHistory = page.chatHistory
          /\ page'.error = page.error
          /\ page'.loading = page.loading
          /\ calls' = calls]_vars

C6_Timeout == Loading ~> ~Loading

\* C7: on the page, right after a completion with status success and
\* response text X the transcript ends with the assistant turn of content X.
C7_RoundTrip ==
  (surface = "page" /\ ev.op = "resume" /\ IsSuccess(ev.resp)
     /\ ev.resp.text.t = "string")
    => /\ page.chatHistory # <<>>
       /\ page.chatHistory[Len(page.chatHistory)] = Turn("assistant", ev.resp.text)

\* C7 witness: the second request completed with its answer after an earlier turn
C7_Witness ==
  /\ surface = "page" /\ ev.op = "resume" /\ ev.id = 2 /\ ev.resp.text = Answer(2)
  /\ IsSuccess(ev.resp)
  /\ Len(page.chatHistory) >= 3
  /\ page.chatHistory[Len(page.chatHistory)] = Turn("assistant", Answer(2))

\* C8: a failed completion on the page (status not success, null response or
\* rejection) sets the error indicator and leaves the transcript as it was.
C8_FailureKeepsTranscript ==
  [][(surface = "page" /\ ev'.op = "resume" /\ ~IsSuccess(ev'.resp))
       => /\ page'.chatHistory = page.chatHistory
          /\ Truthy(page'.error)]_vars

\* C8 witness: a request failed and the transcript still ends with its
\* user turn
C8_Witness ==
  /\ surface = "page" /\ ev.op = "resume" /\ ~IsSuccess(ev.resp)
  /\ calls[ev.id].status = "failed"
  /\ Truthy(page.error)
  /\ page.chatHistory = calls[ev.id].newHistory

\* C9: right after a request completes successfully the error indicator is
\* empty.
C9_SuccessClearsError ==
  (ev.op = "resume" /\ calls[ev.id].status = "succeeded") => Error = Null

\* C10: a surface never holds a success result and an error message at the
\* same time, and holds neither the result nor the error of a request that
\* is still pending.
C10_ExactlyOneState == ~(SuccessShown /\ Truthy(Error))

\* C11 (as stated): after a non-2xx response the surface is Failed and the
\* displayed error text is the message field of the response body when the
\* field is present, otherwise some fallback text.
C11_Non2xxBodyMessage ==
  (surface = "app" /\ ev.op = "resume" /\ ev.resp.kind = "http")
    => /\ calls[ev.id].status = "failed"
       /\ Truthy(app.error)
       /\ Truthy(ev.resp.message) => app.error = ev.resp.message

\* C11 (amended): after a non-2xx response the azure-analyst App is Failed
\* and the displayed error text is "HTTP error! status: <code>" whatever the
\* body holds; the message field of the body, or the fallback "Analysis
\* failed", is displayed for a 2xx body whose status is not success.
C11_Non2xxStatusText ==
  (surface = "app" /\ ev.op = "resume")
    => /\ ev.resp.kind = "http"
            => /\ calls[ev.id].status = "failed"
               /\ ~app.isLoading
               /\ app.analysisResult = NoResp
               /\ app.error = Str(<<"HTTP error! status: ", ToString(ev.resp.http)>>)
       /\ (ev.resp.kind = "body" /\ ev.resp.status # Success)
            => /\ calls[ev.id].status = "failed"
               /\ app.error = Or(ev.resp.message, Str(<<"Analysis failed">>))

\* C11 witness: a 429 whose body carries a message was shown as the status
\* text
C11_Witness ==
  /\ surface = "app" /\ ev.op = "resume" /\ ev.resp.kind = "http"
  /\ Truthy(ev.resp.message)
  /\ app.error = Str(<<"HTTP error! status: ", "429">>)

\* C12: a completion whose body lacks the success marker, or has status
\* success but no analysis/response text, is a failure: the error indicator
\* is set and no success result is recorded.
C12_MalformedIsFailure ==
  (ev.op = "resume" /\ ev.resp.kind = "body"
     /\ (ev.resp.status # Success \/ ev.resp.text.t # "string"))
    => /\ calls[ev.id].status = "failed"
       /\ Truthy(Error)
       /\ ~ResultRecorded(ev.resp)

\* C13: after every failure of the remote call (rejection, null response,
\* error status) the error message is non-empty and loading is false.
C13_FailureAbsorbed ==
  (ev.op = "resume" /\ ~IsSuccess(ev.resp)) => (Truthy(Error) /\ ~Loading)

\* C14: on the page a start (Analyze Logs click, Send click, Enter in the
\* chat input) whose input is empty or whitespace-only issues no remote call
\* and leaves the transcript, loading, the error and both input fields
\* unchanged.
C14_ValidationRejects ==
  [][(\/ Page_clickAnalyzeLogs /\ Trim(page.logs) = <<>>
      \/ (Page_clickSend \/ Page_keyDownEnter) /\ Trim(page.chatInput) = <<>>)
       => /\ calls' = calls
          /\ page'.chatHistory = page.chatHistory
          /\ page'.loading = page.loading
          /\ page'.error = page.error
          /\ page'.logs = page.logs
          /\ page'.chatInput = page.chatInput]_vars

\* C14 witness: Enter was pressed on a connected, idle page whose chat text
\* is whitespace, and no call was issued
C14_Witness ==
  /\ surface = "page" /\ page.falcon /\ ~page.loading
  /\ ev.op = "keyDownEnter" /\ ev.id = 0 /\ calls = <<>>
  /\ page.chatInput = <<" ">> /\ page.chatHistory = <<>>

\* the user's analyze actions on the record-backed surfaces
AnalyzeOps == {"clickTriage", "clickReanalyze", "clickAnalyze"}

\* C15: on every record-backed surface an analyze action taken while no
\* record has been received issues no remote call, leaves loading false and
\* sets the error message.
C15_NoSubject ==
  [][(surface # "page" /\ Record.t # "object" /\ ev'.op \in AnalyzeOps)
       => /\ calls' = calls
          /\ ~Loading'
          /\ Truthy(Error')]_vars

\* the aliases of a logical display field, in the order the surface tries them
Aliases(f) ==
  CASE surface = "ext" -> <<f>>
    [] surface = "app" /\ f = "name" -> <<"name", "detection_name">>
    [] surface = "app" /\ f = "host" -> <<"hostname", "host_name", "device_name">>
    [] surface = "azext" /\ f = "id" -> <<"id", "detection_id", "incident_id">>

Sentinel(f) ==
  CASE surface = "ext" -> Str(<<"Unknown">>)
    [] surface = "app" /\ f = "name" -> Str(<<"Unknown Detection">>)
    [] surface = "app" /\ f = "host" -> Str(<<"Unknown Device">>)
    [] surface = "azext" -> Str(<<"N/A">>)

Range(s) == { s[i] : i \in 1..Len(s) }

C17_FirstPresentAlias ==
  (view # NoView /\ surface \in {"app", "azext"})
    => \A f \in DOMAIN view : \A i \in 1..Len(Aliases(f)) :
         (/\ Aliases(f)[i] \in DOMAIN Record.v
          /\ \A j \in 1..(i - 1) : Aliases(f)[j] \notin DOMAIN Record.v)
           => view[f] = Get(Record, Aliases(f)[i])

\* C17 (amended): every display field holds the value of the first alias,
\* in the order of the surface, whose value is a non-empty text; an alias
\* that is absent or holds the empty text is skipped, and the field holds
\* the sentinel when every alias is skipped.
C17_FirstNonEmptyAlias ==
  (view # NoView /\ surface \in {"app", "azext"})
    => \A f \in DOMAIN view :
         /\ \A i \in 1..Len(Aliases(f)) :
              (/\ Truthy(Get(Record, Aliases(f)[i]))
               /\ \A j \in 1..(i - 1) : ~Truthy(Get(Record, Aliases(f)[j])))
                => view[f] = Get(Record, Aliases(f)[i])
         /\ (\A i \in 1..Len(Aliases(f)) : ~Truthy(Get(Record, Aliases(f)[i])))
              => view[f] = Sentinel(f)

\* C17 witness: hostname is present but empty, and the host displayed is
\* host_name although device_name is present too
C17_Witness ==
  /\ surface = "app" /\ view # NoView
  /\ Get(Record, "hostname") = Str(<<>>)
  /\ Truthy(Get(Record, "host_name")) /\ Truthy(Get(Record, "device_name"))
  /\ view.host = Get(Record, "host_name")

\* a step that clears the stored result or empties the transcript
Cleared ==
  \/ SuccessShown /\ ~SuccessShown'
  \/ surface = "page" /\ page.chatHistory # <<>> /\ page'.chatHistory = <<>>

\* a step in which a call in flight completes as failed
FailedCompletion ==
  \E i \in 1..Len(calls) : calls[i].status = "pending" /\ calls'[i].status = "failed"

\* C18 (as stated): the stored result or transcript is cleared exactly by
\* the data-arrival events - every data arrival clears it and every step
\* that clears it is a data arrival - and a failed completion leaves a
\* stored result or transcript as it was.
C18_ResetOnlyOnData ==
  [][/\ Cleared => arrivals' = arrivals + 1
     /\ arrivals' = arrivals + 1 => ~SuccessShown'
     /\ FailedCompletion => /\ SuccessShown => Stored' = Stored
                            /\ surface = "page" => Stored' = Stored]_vars

\* C18 (amended): every data arrival clears the stored result; a step that
\* clears it is a data arrival, the start of a request on one of the two
\* azure-analyst surfaces, or on the ui-extension a completion with status
\* success that carries no text; a failed completion leaves a stored result
\* or transcript as it was.
C18_ResetTriggers ==
  [][/\ Cleared =>
          \/ arrivals' = arrivals + 1
          \/ surface \in {"app", "azext"} /\ Len(calls') = Len(calls) + 1
          \/ /\ surface = "ext"
             /\ \E i \in 1..Len(calls) :
                  calls[i].status = "pending" /\ calls'[i].status = "succeeded"
             /\ ~Truthy(ev'.resp.text)
     /\ arrivals' = arrivals + 1 => ~SuccessShown'
     /\ FailedCompletion => /\ SuccessShown => Stored' = Stored
                            /\ surface = "page" => Stored' = Stored]_vars

\* C18 witness: on the ui-extension a re-analysis failed and the analysis of
\* the earlier request is still stored
C18_Witness ==
  /\ surface = "ext" /\ ev.op = "resume" /\ ev.id = 2
  /\ calls[2].status = "failed" /\ calls[1].status = "succeeded"
  /\ src = 1 /\ ext.analysis = Answer(1)

\* a user start action whose guards pass
StartPassed ==
  \/ Page_clickAnalyzeLogs /\ page.falcon /\ ~page.loading /\ Trim(page.logs) # <<>>
  \/ Page_clickSend /\ page.falcon /\ ~page.loading /\ Trim(page.chatInput) # <<>>
  \/ Page_keyDownEnter /\ page.falcon /\ Trim(page.chatInput) # <<>>
  \/ Ext_clickTriage /\ ext.falcon /\ Ext_triageButton
  \/ Ext_clickReanalyze /\ ext.falcon /\ Ext_reanalyzeButton
  \/ App_clickAnalyze /\ App_analyzeButton
  \/ App_clickReanalyze /\ App_reanalyzeButton /\ app.detectionData.t = "object"
  \/ AzExt_clickAnalyze /\ AzExt_analyzeButton

\* C19: a step issues a remote call exactly when it is a user start action
\* whose guards pass, and then it issues one call; so the calls issued are as
\* many as those start actions, and a completion, failed or not, issues none.
C19_NoAutomaticRetry ==
  [][/\ Len(calls') = Len(calls) + 1 <=> StartPassed
     /\ Len(calls') \in {Len(calls), Len(calls) + 1}
     /\ \A i \in 1..Len(calls) :
          /\ calls'[i].fn = calls[i].fn /\ calls'[i].arg = calls[i].arg
          /\ calls[i].status # calls'[i].status => Len(calls') = Len(calls)]_vars

\* C19 witness: the only call of the surface has failed and nothing is in
\* flight
C19_Witness ==
  /\ ev.op = "resume" /\ Len(calls) = 1 /\ calls[1].status = "failed"
  /\ InFlight = {} /\ ~Loading

\* C20: after a re-analyze action taken while a result was displayed and no
\* request was pending, and as long as the record is unchanged, the surface
\* does not display the previously stored result, and once the new call has
\* completed a displayed result is the one that call returned.  (That the
\* action issues a new call is part of C19_NoAutomaticRetry.)
C20_NoCaching ==
  \A j \in 1..Len(calls) :
    (calls[j].prev # 0 /\ calls[j].gen = arrivals)
      => /\ src # calls[j].prev
         /\ (j = Len(calls) /\ calls[j].status # "pending" /\ SuccessShown) => src = j

\* the request state a surface shows: Pending while loading, otherwise
\* Failed when the error cell is written, otherwise Succeeded when a result
\* is shown (on the page: the transcript ends with an assistant turn)
RequestState ==
  IF Loading THEN "Pending"
  ELSE IF Error # Null THEN "Failed"
  ELSE IF \/ SuccessShown
          \/ /\ surface = "page" /\ page.chatHistory # <<>>
             /\ page.chatHistory[Len(page.chatHistory)].role = "assistant"
       THEN "Succeeded"
       ELSE "Idle"

Transitions ==
  { <<"Idle", "Pending">>, <<"Pending", "Succeeded">>, <<"Pending", "Failed">>,
    <<"Succeeded", "Pending">>, <<"Failed", "Pending">> }

\* the surface holds something to send: a non-blank input on the page, a
\* record elsewhere
SubjectAvailable ==
  IF surface = "page"
  THEN Trim(page.logs) # <<>> \/ Trim(page.chatInput) # <<>>
  ELSE Record.t = "object"

\* the surface is connected to the host platform
Connected ==
  CASE surface = "page" -> page.conn = "connected"
    [] surface = "ext" -> ext.conn = "connected"
    [] surface = "app" -> app.conn = "connected"
    [] surface = "azext" -> TRUE

\* C21: on a connected surface the request state changes only along Idle->Pending,
\* Pending->Succeeded, Pending->Failed, Succeeded->Pending and
\* Failed->Pending, or in a data-arrival event; and in Succeeded and in
\* Failed, with a record or input available, a user start action that
\* passes its guards is enabled, and every such action leads to Pending.
C21_ReEntrancy ==
  [][Connected =>
       /\ RequestState' # RequestState
            => \/ <<RequestState, RequestState'>> \in Transitions
               \/ arrivals' = arrivals + 1
       /\ (RequestState \in {"Succeeded", "Failed"} /\ SubjectAvailable
             /\ Len(calls) < MaxCalls) => ENABLED StartPassed
       /\ (RequestState \in {"Succeeded", "Failed"} /\ StartPassed)
            => RequestState' = "Pending"]_vars

\* call i completes in this step
Completes(i) == calls[i].status = "pending" /\ calls'[i].status # "pending"

C23_StartOrdering ==
  [][surface = "page" =>
       /\ Len(calls') > Len(calls) =>
            LET c == calls'[Len(calls')]
            IN /\ c.newHistory = Append(page.chatHistory, Turn("user", Str(
                      IF c.arg.shape = "logs" THEN AnalyzePrefix \o c.arg.text
                      ELSE c.arg.text)))
               /\ page'.chatHistory = c.newHistory
               /\ page'.loading /\ page'.error = Null
       /\ \A i \in 1..Len(calls') :
            calls'[i].status \in {"pending", "failed"}
              => IsPrefix(calls'[i].newHistory, page'.chatHistory)]_vars

\* C24: a data-arrival event received while a request is pending leaves every
\* call as it is (the call in flight stays in flight) and loading true, and
\* changes only the record and the stored result and, on the two
\* azure-analyst surfaces, the error; loading becomes false only when a call
\* completes.
C24_DataWhilePending ==
  [][/\ (arrivals' = arrivals + 1 /\ Loading)
          => /\ Loading' /\ calls' = calls /\ InFlight # {}
             /\ page' = page
             /\ ext' = [ext EXCEPT !.detectionData = ext'.detectionData,
                                   !.analysis = ext'.analysis]
             /\ app' = [app EXCEPT !.detectionData = app'.detectionData,
                                   !.analysisResult = app'.analysisResult,
                                   !.error = app'.error]
             /\ azext' = [azext EXCEPT !.data = azext'.data,
                                       !.analysis = azext'.analysis,
                                       !.error = azext'.error]
     /\ (Loading /\ ~Loading') => \E i \in 1..Len(calls) : Completes(i)]_vars

\* C24 witness: on the azure-analyst extension a second record arrived while
\* the request for the first was pending, and the request is still pending
C24_Witness ==
  /\ surface = "azext" /\ ev.op = "onData" /\ arrivals = 2
  /\ azext.loading /\ InFlight = {1} /\ calls[1].gen = 1
  /\ azext.analysis = NoAnalysis /\ azext.data # calls[1].arg.data

\* the input of the page that call i was started from is as the start of
\* call i left it: the logs as sent, the chat input as handleChatSubmit
\* left it
InputUntouched(i) ==
  surface = "page"
    => IF calls[i].handler = "handleAnalyzeLogs"
       THEN page.logs = calls[i].arg.text
       ELSE page.chatInput = <<>>

\* a user start action that passes its guards and sends what call i sent
Reattempt(i) ==
  /\ StartPassed
  /\ calls'[Len(calls')].fn = calls[i].fn
  /\ calls'[Len(calls')].arg = calls[i].arg

\* C25: right after a request has failed, with no data-arrival event since
\* it was started and the input it was started from untouched, a user start
\* action is enabled that sends the same argument to the same function.
C25_ReattemptAfterFailure ==
  (/\ ev.op = "resume" /\ calls[ev.id].status = "failed"
   /\ InFlight = {} /\ calls[ev.id].gen = arrivals
   /\ InputUntouched(ev.id) /\ Len(calls) < MaxCalls)
    => ENABLED Reattempt(ev.id)

\* C26: a chat submit on the page (Send click or Enter) that passes its
\* guards with chat text m appends the user turn of content m, untrimmed,
\* issues handle_triage_request with the argument {message: m}, and leaves
\* the chat input empty.
C26_ChatSubmit ==
  [][(\/ Page_clickSend /\ page.falcon /\ ~page.loading /\ Trim(page.chatInput) # <<>>
      \/ Page_keyDownEnter /\ page.falcon /\ Trim(page.chatInput) # <<>>)
       => /\ page'.chatHistory = Append(page.chatHistory,
                                        Turn("user", Str(page.chatInput)))
          /\ Len(calls') = Len(calls) + 1
          /\ calls'[Len(calls')].fn = "handle_triage_request"
          /\ calls'[Len(calls')].arg = Arg("message", page.chatInput, "", NoRecord)
          /\ page'.chatInput = <<>>
          /\ page'.logs = page.logs]_vars

\* C26 witness: the chat text " a" was sent with its leading blank
C26_Witness ==
  /\ surface = "page" /\ ev.op \in {"clickSend", "keyDownEnter"}
  /\ ev.id = Len(calls) /\ Len(calls) >= 1
  /\ calls[ev.id].arg = Arg("message", <<" ", "a">>, "", NoRecord)
  /\ page.chatHistory[Len(page.chatHistory)] = Turn("user", Str(<<" ", "a">>))
  /\ page.chatInput = <<>> /\ page.loading

\* C27: an Analyze Logs click on the page that passes its guards with logs
\* text L issues handle_triage_request with the argument {logs: L}, L as
\* typed, appends the user turn "Analyze these logs:\n" followed by L, and
\* leaves L in the logs input.
C27_AnalyzeLogs ==
  [][(Page_clickAnalyzeLogs /\ page.falcon /\ ~page.loading /\ Trim(page.logs) # <<>>)
       => /\ page'.chatHistory =
               Append(page.chatHistory,
                      Turn("user", Str(<<"Analyze these logs:", "\n">> \o page.logs)))
          /\ Len(calls') = Len(calls) + 1
          /\ calls'[Len(calls')].fn = "handle_triage_request"
          /\ calls'[Len(calls')].arg = Arg("logs", page.logs, "", NoRecord)
          /\ page'.logs = page.logs
          /\ page'.chatInput = page.chatInput]_vars

\* C27 witness: the logs " a" were sent as typed and are still in the input
C27_Witness ==
  /\ surface = "page" /\ ev.op = "clickAnalyzeLogs"
  /\ ev.id = Len(calls) /\ Len(calls) >= 1
  /\ calls[ev.id].arg = Arg("logs", <<" ", "a">>, "", NoRecord)
  /\ page.chatHistory[Len(page.chatHistory)]
       = Turn("user", Str(<<"Analyze these logs:", "\n", " ", "a">>))
  /\ page.logs = <<" ", "a">> /\ page.loading

\* C28: an analyze click on the azure-analyst extension that passes its
\* guards issues azure_analyzer with the argument {type, data}, where data
\* is the record of the surface as it is and type is "incident" when the
\* record has an incident_id that is not empty and "detection" otherwise.
C28_TypedArgument ==
  [][(AzExt_clickAnalyze /\ AzExt_analyzeButton)
       => /\ Len(calls') = Len(calls) + 1
          /\ calls'[Len(calls')].fn = "azure_analyzer"
          /\ calls'[Len(calls')].arg.data = azext.data
          /\ azext'.data = azext.data
          /\ calls'[Len(calls')].arg.type =
               IF /\ "incident_id" \in DOMAIN azext.data.v
                  /\ azext.data.v["incident_id"] # <<>>
               THEN "incident" ELSE "detection"]_vars

\* C28 witness: a record whose incident_id is present but empty was sent as
\* a detection
C28_Witness ==
  /\ surface = "azext" /\ Len(calls) = 1 /\ ev.op = "clickAnalyze"
  /\ calls[1].arg.data = azext.data
  /\ "incident_id" \in DOMAIN azext.data.v /\ azext.data.v["incident_id"] = <<>>
  /\ calls[1].arg.type = "detection"

\* C29: in every reachable state loading is true exactly when a call of the
\* surface is in flight.
C29_LoadingIffInFlight == Loading <=> InFlight # {}

\* C30: on a record-backed surface that has received a record and on which
\* no request has been started since the last data-arrival event, no error
\* is displayed.
C30_NoErrorForNewRecord ==
  (/\ surface # "page" /\ arrivals >= 1
   /\ \A i \in 1..Len(calls) : calls[i].gen < arrivals)
    => ~Truthy(Error)

\* C31: in every reachable state of the page the first turn of the
\* transcript, if any, is a user turn and every assistant turn comes right
\* after a user turn (so no two assistant turns are adjacent).
C31_TranscriptShape ==
  surface = "page"
    => /\ page.chatHistory # <<>> => page.chatHistory[1].role = "user"
       /\ \A k \in 1..Len(page.chatHistory) :
            page.chatHistory[k].role = "assistant"
              => k > 1 /\ page.chatHistory[k - 1].role = "user"

\* C31 witness: two requests were answered one after the other
C31_Witness ==
  /\ surface = "page" /\ Len(page.chatHistory) = 4
  /\ page.chatHistory[2] = Turn("assistant", Answer(1))
  /\ page.chatHistory[3].role = "user"
  /\ page.chatHistory[4] = Turn("assistant", Answer(2))

\* C32: in every reachable state of the page the length of the transcript
\* is the number of accepted starts (the calls issued) plus the number of
\* calls that have completed successfully.
C32_TranscriptAccounting ==
  surface = "page"
    => Len(page.chatHistory)
         = Len(calls)
             + Cardinality({ i \in 1..Len(calls) : calls[i].status = "succeeded" })

\* the platform connection of the page or the ui-extension has failed
ConnectionFailed ==
  \/ surface = "page" /\ page.conn = "failed"
  \/ surface = "ext" /\ ext.conn = "failed"

\* C33: on the page and the ui-extension a call is issued only on a
\* connected surface; once the connection has failed the error is "Failed to
\* connect to Falcon.", and every start action taken then issues no call
\* and leaves loading, the error and the transcript or result unchanged.
C33_ConnectionGate ==
  /\ []((surface \in {"page", "ext"} /\ calls # <<>>) => Connected)
  /\ [](ConnectionFailed
         => /\ Error = Str(<<"Failed to connect to Falcon.">>)
            /\ ~Loading /\ calls = <<>>)
  /\ [][(/\ ConnectionFailed
         /\ \/ Page_clickAnalyzeLogs \/ Page_clickSend \/ Page_keyDownEnter
            \/ Ext_clickTriage \/ Ext_clickReanalyze)
          => /\ calls' = calls
             /\ Loading' = Loading /\ Error' = Error /\ Stored' = Stored
             /\ page' = page /\ ext' = ext]_vars

\* C33 witness: the connection of the page failed and Send was clicked with
\* a chat text typed in
C33_Witness ==
  /\ surface = "page" /\ page.conn = "failed" /\ ev.op = "clickSend"
  /\ Trim(page.chatInput) # <<>> /\ calls = <<>>
  /\ page.error = Str(<<"Failed to connect to Falcon.">>)
  /\ ~page.loading /\ page.chatHistory = <<>>

====
